---- MODULE Spec2Model ----
(***************************************************************************)
(* wc-now: the blueprint generator (Spec), the blueprint merge of the CLI   *)
(* (SpecMerge), the product normalizer (SpecTransform), the embedding of   *)
(* product texts in the import script (SpecEscape), the command line       *)
(* (SpecCli) and the paging of the store client (SpecPages).               *)
(*                                                                         *)
(* The repository holds three renditions of generateWooCommerceBlueprint:  *)
(*   "generator.ts"  src/src/blueprint/generator.ts                        *)
(*   "part_002"      src/unnamed/part_002                                  *)
(*   "part_003"      src/unnamed/part_003                                  *)
(* The variable impl says which rendition a behaviour runs; every          *)
(* property of the generator is checked against all three.                 *)
(*                                                                         *)
(* A blueprint is a record, a step is a record whose field step is its     *)
(* tag, strings are strings.  PHP templates that do not depend on the      *)
(* options are abbreviated to a literal naming them.                       *)
(***************************************************************************)
EXTENDS Integers, Sequences, FiniteSets, TLC

VARIABLES impl, options, blueprint, pc,
          base, custom, heap, merged,
          remote, imports,
          text, field, script,
          cli, argv, response, tempFile, child, proc, log,
          store, currentPage, hasNextPage, requested, answers, yielded

vars == <<impl, options, blueprint, pc, base, custom, heap, merged, remote, imports,
          text, field, script, cli, argv, response, tempFile, child, proc, log,
          store, currentPage, hasNextPage, requested, answers, yielded>>

(***************************************************************************)
(* Bounds of the model.                                                    *)
(***************************************************************************)
MaxProducts == 1
MaxPlugins == 2
MaxSteps == 2

\* Longest phpExtensionBundles list, and longest plugins, themes or steps list,
\* of a document handed to mergeBlueprints.
MaxBundles == 2

MaxEntries == 2

\* Longest list of products handed to transformWooCommerceProducts.
MaxRemote == 2

\* Longest text embedded in the import script.
MaxLen == 3

\* Largest number of pages a store reports in X-WP-TotalPages.
MaxPages == 3

Impls == {"generator.ts", "part_002", "part_003"}

(***************************************************************************)
(* Sequence and string helpers.                                            *)
(***************************************************************************)
SeqsUpTo(S, n) == UNION {[1..k -> S] : k \in 0..n}

RECURSIVE Join(_, _)
Join(strs, sep) ==
    IF strs = <<>> THEN ""
    ELSE IF Len(strs) = 1 THEN strs[1]
    ELSE strs[1] \o sep \o Join(Tail(strs), sep)

(***************************************************************************)
(* escapePHP: str.replace(/'/g, "\\'") puts a backslash before every       *)
(* single quote and leaves every other character alone.                    *)
(***************************************************************************)
\* Faulty variant: single quotes are dropped, not escaped.
RECURSIVE escapePHP_StripQuotes(_)
escapePHP_StripQuotes(str) ==
    IF Len(str) = 0 THEN ""
    ELSE LET c == SubSeq(str, 1, 1)
             rest == escapePHP_StripQuotes(SubSeq(str, 2, Len(str)))
         IN  IF c = "'" THEN rest ELSE c \o rest

RECURSIVE escapePHP(_)
escapePHP(str) ==
    IF Len(str) = 0 THEN ""
    ELSE LET c == SubSeq(str, 1, 1)
             rest == escapePHP(SubSeq(str, 2, Len(str)))
         IN  IF c = "'" THEN "\\'" \o rest ELSE c \o rest

(***************************************************************************)
(* generateProductImportScript: one PHP array(...) per product, joined     *)
(* with ",\n", between the fixed head and tail of the script.              *)
(***************************************************************************)
QuotedList(strs) == Join([i \in 1..Len(strs) |-> "'" \o escapePHP(strs[i]) \o "'"], ", ")

ProductPhpArray(product) ==
    "array('name' => '" \o escapePHP(product.name)
    \o "', 'description' => '" \o escapePHP(product.description)
    \o "', 'short_description' => '" \o escapePHP(product.short_description)
    \o "', 'regular_price' => '" \o escapePHP(product.regular_price)
    \o "', 'sale_price' => '" \o escapePHP(product.sale_price)
    \o "', 'sku' => '" \o escapePHP(product.sku)
    \o "', 'stock_status' => '" \o escapePHP(product.stock_status)
    \o "', 'categories' => array(" \o QuotedList(product.categories)
    \o "), 'images' => array(" \o QuotedList(product.images)
    \o "))"

generateProductImportScript(products) ==
    "<?php $products_data = array(\n"
    \o Join([i \in 1..Len(products) |-> ProductPhpArray(products[i])], ",\n")
    \o "\n); foreach ($products_data as $product_data) { ... } ?>"

(***************************************************************************)
(* The steps of the blueprint literal.                                     *)
(***************************************************************************)
PluginResource(slug) == [resource |-> "wordpress.org/plugins", slug |-> slug]

\* part_002 carries the resource in pluginData, the other two in pluginZipFile.
InstallPluginStep(im, slug) ==
    IF im = "part_002"
    THEN [step |-> "installPlugin", pluginData |-> PluginResource(slug)]
    ELSE [step |-> "installPlugin", pluginZipFile |-> PluginResource(slug)]

ActivatePluginStep(slug) ==
    [step |-> "activatePlugin", pluginPath |-> slug \o "/" \o slug \o ".php"]

\* The plugins the literal installs itself, before the additional ones.
BundledPlugins(im) ==
    IF im = "part_002" THEN <<"woocommerce">> ELSE <<"woocommerce", "query-monitor">>

InstallSteps(im, additionalPlugins) ==
    LET slugs == BundledPlugins(im) \o additionalPlugins
    IN  [i \in 1..Len(slugs) |-> InstallPluginStep(im, slugs[i])]

\* Faulty variant: the additional plugins are installed but not activated.
ActivateSteps_OnlyBundled(im, additionalPlugins) ==
    LET slugs == BundledPlugins(im)
    IN  [i \in 1..Len(slugs) |-> ActivatePluginStep(slugs[i])]


ActivateSteps(im, additionalPlugins) ==
    LET slugs == BundledPlugins(im) \o additionalPlugins
    IN  [i \in 1..Len(slugs) |-> ActivatePluginStep(slugs[i])]

\* part_002 opens the literal with a runPHP step that verifies WordPress core.
CoreReadinessCode == "<?php /* WordPress core initialized and database verified. */ ?>"

CoreReadinessSteps(im) ==
    IF im = "part_002" THEN <<[step |-> "runPHP", code |-> CoreReadinessCode]>> ELSE <<>>

MuPluginsDir(im) ==
    IF im = "part_002" THEN "/wordpress/wp-content/mu-plugins" ELSE "/wp-content/mu-plugins"

MkdirStep(im) == [step |-> "mkdir", path |-> MuPluginsDir(im)]

RewriteStep(im) ==
    [step |-> "writeFile", path |-> MuPluginsDir(im) \o "/rewrite.php",
     data |-> "<?php /* Use pretty permalinks */"]

SetSiteOptionsStep(siteName) ==
    [step |-> "setSiteOptions",
     options |->
       [blogname |-> siteName,
        woocommerce_store_city |-> "New York",
        woocommerce_store_address |-> "123 Main St",
        woocommerce_store_postcode |-> "10001",
        woocommerce_default_country |-> "US:NY",
        woocommerce_onboarding_profile |-> [skipped |-> TRUE],
        woocommerce_currency |-> "USD",
        woocommerce_weight_unit |-> "lbs",
        woocommerce_dimension_unit |-> "in",
        woocommerce_allow_tracking |-> "no",
        woocommerce_cheque_settings |-> [enabled |-> "yes"],
        woocommerce_cod_settings |-> [enabled |-> "yes"],
        woocommerce_bacs_settings |-> [enabled |-> "yes"],
        woocommerce_calc_taxes |-> "yes",
        woocommerce_enable_coupons |-> "yes",
        woocommerce_enable_reviews |-> "yes",
        woocommerce_enable_review_rating |-> "yes",
        woocommerce_manage_stock |-> "yes",
        woocommerce_notify_low_stock |-> "yes",
        woocommerce_notify_no_stock |-> "yes",
        woocommerce_stock_email_recipient |-> "admin@example.com",
        woocommerce_notify_low_stock_amount |-> 2,
        woocommerce_notify_no_stock_amount |-> 0,
        woocommerce_enable_guest_checkout |-> "yes",
        woocommerce_enable_checkout_login_reminder |-> "yes",
        woocommerce_enable_signup_and_login_from_checkout |-> "yes",
        woocommerce_enable_myaccount_registration |-> "yes",
        woocommerce_registration_generate_username |-> "yes",
        woocommerce_registration_generate_password |-> "yes"]]

DebugConfigStep(im) ==
    [step |-> "writeFile", path |-> MuPluginsDir(im) \o "/debug-config.php",
     data |-> "<?php /* Debug configuration for development */"]

\* Faulty variant: the activation steps are written before the install steps.
LiteralSteps_ActivateFirst(im, siteName, additionalPlugins) ==
    CoreReadinessSteps(im)
    \o ActivateSteps(im, additionalPlugins)
    \o InstallSteps(im, additionalPlugins)
    \o <<MkdirStep(im), RewriteStep(im), SetSiteOptionsStep(siteName), DebugConfigStep(im)>>

\* Faulty variant: the site title is set by a setSiteOptions step of its own,
\* ahead of the step that carries the settings bundle.
LiteralSteps_SplitSiteOptions(im, siteName, additionalPlugins) ==
    CoreReadinessSteps(im)
    \o InstallSteps(im, additionalPlugins)
    \o ActivateSteps(im, additionalPlugins)
    \o <<MkdirStep(im), RewriteStep(im),
         [step |-> "setSiteOptions", options |-> [blogname |-> siteName]],
         SetSiteOptionsStep(siteName), DebugConfigStep(im)>>

LiteralSteps(im, siteName, additionalPlugins) ==
    CoreReadinessSteps(im)
    \o InstallSteps(im, additionalPlugins)
    \o ActivateSteps(im, additionalPlugins)
    \o <<MkdirStep(im), RewriteStep(im), SetSiteOptionsStep(siteName), DebugConfigStep(im)>>

(***************************************************************************)
(* The steps pushed after the literal.                                     *)
(***************************************************************************)
\* part_002 pushes a runPHP step that creates the WooCommerce tables.
TablesCode == "<?php /* Ensure WooCommerce database tables are created */ ?>"

TablesSteps(im) ==
    IF im = "part_002" THEN <<[step |-> "runPHP", code |-> TablesCode]>> ELSE <<>>

\* The helper is required and unlinked under ABSPATH, or under /wordpress/ in part_002.
ImportHelperRef(im) ==
    IF im = "part_002"
    THEN "'/wordpress/wp-content/mu-plugins/import-products.php'"
    ELSE "ABSPATH . 'wp-content/mu-plugins/import-products.php'"

\* Faulty variant: the helper is written and run but never removed.
ProductImportSteps_NoUnlink(im, products) ==
    << [step |-> "writeFile", path |-> MuPluginsDir(im) \o "/import-products.php",
        data |-> generateProductImportScript(products)],
       [step |-> "runPHP", code |-> "<?php require_once(" \o ImportHelperRef(im) \o "); ?>"] >>


ProductImportSteps(im, products) ==
    << [step |-> "writeFile", path |-> MuPluginsDir(im) \o "/import-products.php",
        data |-> generateProductImportScript(products)],
       [step |-> "runPHP", code |-> "<?php require_once(" \o ImportHelperRef(im) \o "); ?>"],
       [step |-> "runPHP", code |-> "<?php unlink(" \o ImportHelperRef(im) \o "); ?>"] >>

SampleProductsCode == "<?php /* This script creates sample WooCommerce products */ ?>"

SampleProductsUrl ==
    "https://raw.githubusercontent.com/woocommerce/woocommerce/trunk/plugins/woocommerce/sample-data/sample_products.xml"

\* part_003 imports the sample WXR file, the other two run the sample-products script.
SampleDataStep(im) ==
    IF im = "part_003"
    THEN [step |-> "importWxr", file |-> [resource |-> "url", url |-> SampleProductsUrl]]
    ELSE [step |-> "runPHP", code |-> SampleProductsCode]

\* Faulty variant: the sample data is pushed whether or not products are given.
ProductSteps_AlwaysSample(im, products) ==
    (IF Len(products) > 0 THEN ProductImportSteps(im, products) ELSE <<>>)
    \o <<SampleDataStep(im)>>


ProductSteps(im, products) ==
    IF Len(products) > 0 THEN ProductImportSteps(im, products) ELSE <<SampleDataStep(im)>>

\* Faulty variant: a single additional step is dropped (length test off by one).
AdditionalStepsBlock_OffByOne(additionalSteps) ==
    IF Len(additionalSteps) > 1 THEN additionalSteps ELSE <<>>


AdditionalStepsBlock(additionalSteps) ==
    IF Len(additionalSteps) > 0 THEN additionalSteps ELSE <<>>

HelperStep(im) ==
    [step |-> "writeFile", path |-> MuPluginsDir(im) \o "/playground-helpers.php",
     data |-> "<?php /* WordPress Playground Development Helpers */"]

(***************************************************************************)
(* generateWooCommerceBlueprint.  options is a function whose domain is    *)
(* the set of the options the caller supplied; a destructuring default     *)
(* applies exactly when the key is not supplied.                           *)
(***************************************************************************)
OptionKeys ==
    {"siteName", "products", "landingPage", "php", "wp", "additionalPlugins", "additionalSteps"}

\* Faulty variant: the default also replaces a supplied empty value (|| for =).
Opt_Falsy(opts, key, default) ==
    IF key \in DOMAIN opts /\ Len(opts[key]) > 0 THEN opts[key] ELSE default


Opt(opts, key, default) == IF key \in DOMAIN opts THEN opts[key] ELSE default

BlueprintHead(im, landingPage, php, wp) ==
    IF im = "part_003"
    THEN [schema |-> "https://playground.wordpress.net/blueprint-schema.json",
          landingPage |-> landingPage,
          preferredVersions |-> [php |-> php, wp |-> wp],
          phpExtensionBundles |-> <<"kitchen-sink">>,
          features |-> [networking |-> TRUE]]
    ELSE [schema |-> "https://playground.wordpress.net/blueprint-schema.json",
          landingPage |-> landingPage,
          login |-> TRUE,
          preferredVersions |-> [php |-> php, wp |-> wp],
          phpExtensionBundles |-> <<"kitchen-sink">>,
          features |-> [networking |-> TRUE]]

WithSteps(head, steps) ==
    [k \in DOMAIN head \cup {"steps"} |-> IF k = "steps" THEN steps ELSE head[k]]

\* Faulty variant: the developer helper is pushed before the additional steps.
generateWooCommerceBlueprint_HelperEarly(im, opts) ==
    LET siteName == Opt(opts, "siteName", "My WooCommerce Store")
        products == Opt(opts, "products", <<>>)
        landingPage == Opt(opts, "landingPage", "/wp-admin/")
        php == Opt(opts, "php", "8.0")
        wp == Opt(opts, "wp", "latest")
        additionalPlugins == Opt(opts, "additionalPlugins", <<>>)
        additionalSteps == Opt(opts, "additionalSteps", <<>>)
    IN  WithSteps(BlueprintHead(im, landingPage, php, wp),
                  LiteralSteps(im, siteName, additionalPlugins)
                  \o TablesSteps(im)
                  \o ProductSteps(im, products)
                  \o <<HelperStep(im)>>
                  \o AdditionalStepsBlock(additionalSteps))


generateWooCommerceBlueprint(im, opts) ==
    LET siteName == Opt(opts, "siteName", "My WooCommerce Store")
        products == Opt(opts, "products", <<>>)
        landingPage == Opt(opts, "landingPage", "/wp-admin/")
        php == Opt(opts, "php", "8.0")
        wp == Opt(opts, "wp", "latest")
        additionalPlugins == Opt(opts, "additionalPlugins", <<>>)
        additionalSteps == Opt(opts, "additionalSteps", <<>>)
    IN  WithSteps(BlueprintHead(im, landingPage, php, wp),
                  LiteralSteps(im, siteName, additionalPlugins)
                  \o TablesSteps(im)
                  \o ProductSteps(im, products)
                  \o AdditionalStepsBlock(additionalSteps)
                  \o <<HelperStep(im)>>)

(***************************************************************************)
(* The inputs a behaviour draws from.                                      *)
(***************************************************************************)
ProductQuoted ==
    [name |-> "O'Mug", description |-> "it's", short_description |-> "",
     price |-> "10", regular_price |-> "10", sale_price |-> "", sku |-> "M1",
     stock_status |-> "instock", categories |-> <<"Mugs">>,
     images |-> <<"//x/m.jpg">>, attributes |-> <<>>, variations |-> <<>>]

ProductUniverse == {ProductQuoted}

PluginSlugs == {"akismet", "woocommerce"}

\* Raw steps a caller may pass: a plugin install, the WooCommerce sample-data
\* import, and a file written under the name of the import helper.
StepUniverse ==
    { [step |-> "installPlugin", pluginData |-> PluginResource("akismet")],
      [step |-> "importWxr", file |-> [resource |-> "url", url |-> SampleProductsUrl]],
      [step |-> "writeFile", path |-> "/tmp/import-products.php", data |-> "<?php /* mine */"] }

\* For each option, the sets of values a caller may supply for it.
OptionValues ==
    [siteName |-> {"Test Store"},
     products |-> SeqsUpTo(ProductUniverse, MaxProducts),
     landingPage |-> {""},
     php |-> {"7.4"},
     wp |-> {"6.3"},
     additionalPlugins |-> SeqsUpTo(PluginSlugs, MaxPlugins),
     additionalSteps |-> SeqsUpTo(StepUniverse, MaxSteps)]

\* Every option is supplied or not, independently of the others: m[k] is
\* empty when option k is omitted and holds the supplied value otherwise.
Maybe(S) == {{}} \cup {{v} : v \in S}

MkOptions(m) == [k \in {x \in OptionKeys : m[x] # {}} |-> CHOOSE v \in m[k] : TRUE]

OptionSets ==
    { MkOptions([siteName |-> sn, products |-> pr, landingPage |-> lp, php |-> ph,
                 wp |-> w, additionalPlugins |-> ap, additionalSteps |-> as]) :
        sn \in Maybe(OptionValues.siteName), pr \in Maybe(OptionValues.products),
        lp \in Maybe(OptionValues.landingPage), ph \in Maybe(OptionValues.php),
        w \in Maybe(OptionValues.wp), ap \in Maybe(OptionValues.additionalPlugins),
        as \in Maybe(OptionValues.additionalSteps) }

(***************************************************************************)
(* mergeBlueprints (cli/index.ts).  A document is a function from the      *)
(* names of its present fields to their values.  The call works on a heap  *)
(* of objects: a document object holds its scalar fields and, for every    *)
(* mapping or list field, the address of the object that holds it.         *)
(***************************************************************************)
TruthyScalarFields == {"schema", "landingPage"}

MappingFields == {"preferredVersions", "features", "siteOptions", "constants"}

ListFields == {"plugins", "themes", "steps"}

ContainerFields == MappingFields \cup {"phpExtensionBundles"} \cup ListFields

MergeFields == TruthyScalarFields \cup {"login"} \cup ContainerFields

\* The address of the object that holds field f of the document at owner.
Ref(owner, f) == owner \o "." \o f

\* JavaScript truthiness of a string: every string but the empty one.
Truthy(str) == str # ""

\* { ...baseMap, ...customMap }
\* Faulty variant: the spread operands are swapped, base's value wins.
SpreadMaps_BaseWins(baseMap, customMap) ==
    [k \in DOMAIN baseMap \cup DOMAIN customMap |->
       IF k \in DOMAIN baseMap THEN baseMap[k] ELSE customMap[k]]

SpreadMaps(baseMap, customMap) ==
    [k \in DOMAIN baseMap \cup DOMAIN customMap |->
       IF k \in DOMAIN customMap THEN customMap[k] ELSE baseMap[k]]

\* [...baseList, ...customList]
\* Faulty variant: the override's entries are put first.
SpreadLists_CustomFirst(baseList, customList) == customList \o baseList

SpreadLists(baseList, customList) == baseList \o customList

\* a.filter((v, i, a) => a.indexOf(v) === i), from position i on.
RECURSIVE FilterFirstFrom(_, _)
FilterFirstFrom(a, i) ==
    IF i > Len(a) THEN <<>>
    ELSE (IF \A j \in 1..(i - 1) : a[j] # a[i] THEN <<a[i]>> ELSE <<>>)
         \o FilterFirstFrom(a, i + 1)

RemoveDuplicates(a) == FilterFirstFrom(a, 1)

\* base.f || [] and { ...base.f }: the container behind field f, empty when absent.
ContainerOr(h, doc, f) == IF f \in DOMAIN h[doc] THEN h[h[doc][f]] ELSE <<>>

\* The fields the if-statements of mergeBlueprints assign to.
AssignedFields(h, c) ==
    {f \in TruthyScalarFields : f \in DOMAIN h[c] /\ Truthy(h[c][f])}
    \cup {f \in {"login"} \cup ContainerFields : f \in DOMAIN h[c]}

\* The literal the if-statement of container field f builds.
MergedContainer(h, b, c, f) ==
    IF f \in MappingFields THEN SpreadMaps(ContainerOr(h, b, f), h[h[c][f]])
    ELSE IF f = "phpExtensionBundles"
    THEN RemoveDuplicates(SpreadLists(ContainerOr(h, b, f), h[h[c][f]]))
    ELSE SpreadLists(ContainerOr(h, b, f), h[h[c][f]])

\* The if-statements, assigning to the document object at m.
AssignFields(h, m, b, c) ==
    LET assigned == AssignedFields(h, c)
        fresh == {f \in assigned : f \in ContainerFields}
        object == [f \in DOMAIN h[m] \cup assigned |->
                     IF f \notin assigned THEN h[m][f]
                     ELSE IF f \in ContainerFields THEN Ref("merged", f)
                     ELSE h[c][f]]
    IN  [a \in DOMAIN h \cup {Ref("merged", f) : f \in fresh} |->
           IF a = m THEN object
           ELSE IF a \in DOMAIN h THEN h[a]
           ELSE MergedContainer(h, b, c,
                  CHOOSE f \in fresh : Ref("merged", f) = a)]

\* Faulty variant: merged is base itself, not a copy of it.
mergeBlueprints_Alias(h, b, c) ==
    [heap |-> AssignFields(h, b, b, c), result |-> b]

\* const merged = { ...base }; the if-statements; return merged.
mergeBlueprints(h, b, c) ==
    [heap |-> AssignFields(("merged" :> h[b]) @@ h, "merged", b, c),
     result |-> "merged"]

\* The document at address a, its containers read through their addresses.
Deref(h, a) ==
    [f \in DOMAIN h[a] |-> IF f \in ContainerFields THEN h[h[a][f]] ELSE h[a][f]]

\* The objects of a document that a caller holds at address owner.
Alloc(owner, doc) ==
    LET held == {f \in DOMAIN doc : f \in ContainerFields}
    IN  [a \in {owner} \cup {Ref(owner, f) : f \in held} |->
           IF a = owner
           THEN [f \in DOMAIN doc |-> IF f \in held THEN Ref(owner, f) ELSE doc[f]]
           ELSE doc[CHOOSE f \in held : Ref(owner, f) = a]]

(***************************************************************************)
(* The documents handed to mergeBlueprints: a background document, empty   *)
(* or with every field present, in which one field is varied or removed.   *)
(***************************************************************************)
MapKeys == {"k1", "k2"}

BundleNames == {"kitchen-sink", "intl"}

ListEntries(f) ==
    IF f = "steps"
    THEN {[step |-> "runPHP", code |-> "<?php ?>"], [step |-> "frobnicate", x |-> "y"]}
    ELSE IF f = "plugins" THEN {"akismet", "jetpack"}
    ELSE {"storefront", "astra"}

\* Mapping values say whose they are, so that a merged value tells its origin.
FieldValues(side, f) ==
    IF f = "schema" THEN {"", side \o "-schema.json"}
    ELSE IF f = "landingPage" THEN {"", "/" \o side \o "/"}
    ELSE IF f = "login" THEN {TRUE, FALSE}
    ELSE IF f \in MappingFields
    THEN {[k \in K |-> side \o "." \o f \o "." \o k] : K \in SUBSET MapKeys}
    ELSE IF f = "phpExtensionBundles" THEN SeqsUpTo(BundleNames, MaxBundles)
    ELSE SeqsUpTo(ListEntries(f), MaxEntries)

FullValue(side, f) ==
    IF f = "schema" THEN side \o "-schema.json"
    ELSE IF f = "landingPage" THEN "/" \o side \o "/"
    ELSE IF f = "login" THEN TRUE
    ELSE IF f \in MappingFields THEN [k \in MapKeys |-> side \o "." \o f \o "." \o k]
    ELSE IF f = "phpExtensionBundles" THEN <<"kitchen-sink">>
    ELSE IF f = "steps" THEN <<[step |-> "runPHP", code |-> "<?php ?>"]>>
    ELSE IF f = "plugins" THEN <<"akismet">>
    ELSE <<"storefront">>

EmptyDocument == <<>>

FullDocument(side) == [f \in MergeFields |-> FullValue(side, f)]

WithField(doc, f, v) == [g \in DOMAIN doc \cup {f} |-> IF g = f THEN v ELSE doc[g]]

WithoutField(doc, f) == [g \in DOMAIN doc \ {f} |-> doc[g]]

Documents(side) ==
    UNION { {WithoutField(bg, f)} \cup {WithField(bg, f, v) : v \in FieldValues(side, f)} :
            bg \in {EmptyDocument, FullDocument(side)}, f \in MergeFields }

(***************************************************************************)
(* transformWooCommerceProducts (generator.ts).  A product of the store    *)
(* API is a function from the names of its present fields to their values; *)
(* a field of the result whose value is undefined is absent from the       *)
(* resulting record.                                                       *)
(***************************************************************************)
\* product.f || fallback, for a string field: absent and "" are both falsy.
StringOr(record, f, fallback) ==
    IF f \in DOMAIN record /\ record[f] # "" THEN record[f] ELSE fallback

\* product.f || [], for an array field: an array is truthy, also when empty.
ArrayOr(record, f) == IF f \in DOMAIN record THEN record[f] ELSE <<>>

\* product.prices?.f || fallback
\* Faulty variant: every price field falls back to "0".
PriceOr_ZeroFallback(product, f, fallback) ==
    IF "prices" \in DOMAIN product THEN StringOr(product.prices, f, "0") ELSE "0"

PriceOr(product, f, fallback) ==
    IF "prices" \in DOMAIN product THEN StringOr(product.prices, f, fallback) ELSE fallback

\* Faulty variant: a stock status the store sent is passed through.
StockStatus_Passthrough(product) ==
    IF "stock_status" \in DOMAIN product THEN product.stock_status
    ELSE IF "is_in_stock" \in DOMAIN product /\ product.is_in_stock
    THEN "instock" ELSE "outofstock"

\* product.is_in_stock ? "instock" : "outofstock"
StockStatus(product) ==
    IF "is_in_stock" \in DOMAIN product /\ product.is_in_stock
    THEN "instock" ELSE "outofstock"

\* product.categories?.map((cat) => cat.name) || []
CategoryNames(product) ==
    LET cats == ArrayOr(product, "categories")
    IN  [i \in 1..Len(cats) |-> cats[i].name]

\* product.images?.map((img) => img.src || "").filter(Boolean) || []
\* Faulty variant: the mapped list is not filtered.
ImageSources_Unfiltered(product) ==
    LET imgs == ArrayOr(product, "images")
    IN  [i \in 1..Len(imgs) |-> StringOr(imgs[i], "src", "")]

ImageSources(product) ==
    LET imgs == ArrayOr(product, "images")
        srcs == [i \in 1..Len(imgs) |-> StringOr(imgs[i], "src", "")]
    IN  SelectSeq(srcs, Truthy)

\* The record the arrow function returns for one product.  name and
\* description are product.name and product.description as they are:
\* undefined when the product has no such field.
transformProduct(product) ==
    [f \in {"name", "description"} \cap DOMAIN product |-> product[f]]
    @@ [short_description |-> StringOr(product, "short_description", ""),
        price |-> PriceOr(product, "price", "0"),
        regular_price |-> PriceOr(product, "regular_price", "0"),
        sale_price |-> PriceOr(product, "sale_price", ""),
        sku |-> StringOr(product, "sku", ""),
        stock_status |-> StockStatus(product),
        categories |-> CategoryNames(product),
        images |-> ImageSources(product),
        attributes |-> ArrayOr(product, "attributes"),
        variations |-> ArrayOr(product, "variations")]

\* Faulty variant: products without a name are left out.
transformWooCommerceProducts_NamedOnly(products) ==
    LET named == SelectSeq(products, LAMBDA p : "name" \in DOMAIN p)
    IN  [i \in 1..Len(named) |-> transformProduct(named[i])]

\* products.map(...)
transformWooCommerceProducts(products) ==
    [i \in 1..Len(products) |-> transformProduct(products[i])]

(***************************************************************************)
(* The products handed to the normalizer: the product of the test, the     *)
(* empty product, and each of them with one field varied or removed.       *)
(***************************************************************************)
RemoteFields ==
    {"name", "description", "short_description", "prices", "sku", "is_in_stock",
     "stock_status", "categories", "images", "attributes", "variations"}

RemoteValues(f) ==
    IF f = "name" THEN {"API Product", "Mug"}
    ELSE IF f = "description" THEN {"<p>Product description</p>"}
    ELSE IF f = "short_description" THEN {"", "Short desc"}
    ELSE IF f = "prices"
    THEN {<<>>, [price |-> "", regular_price |-> "2500"],
          [price |-> "2000", regular_price |-> "2500", sale_price |-> "2000"]}
    ELSE IF f = "sku" THEN {"", "API-001"}
    ELSE IF f = "is_in_stock" THEN {TRUE, FALSE}
    ELSE IF f = "stock_status" THEN {"onbackorder"}
    ELSE IF f = "categories" THEN {<<>>, <<[name |-> "Electronics"]>>}
    ELSE IF f = "images"
    THEN {<<[src |-> "https://example.com/image1.jpg"]>>,
          <<[src |-> ""], [src |-> "https://example.com/image2.jpg"],
            [alt |-> "Product image"], [src |-> "https://example.com/image1.jpg"]>>}
    ELSE {<<>>}

\* The product of src/test/blueprint.test.ts.
FullRemote ==
    [name |-> "API Product", description |-> "<p>Product description</p>",
     short_description |-> "Short desc",
     prices |-> [price |-> "2000", regular_price |-> "2500", sale_price |-> "2000"],
     sku |-> "API-001", is_in_stock |-> TRUE,
     categories |-> <<[name |-> "Electronics"]>>,
     images |-> <<[src |-> "https://example.com/image1.jpg"]>>,
     attributes |-> <<>>, variations |-> <<>>]

RemoteProducts ==
    UNION { {WithoutField(bg, f)} \cup {WithField(bg, f, v) : v \in RemoteValues(f)} :
            bg \in {EmptyDocument, FullRemote}, f \in RemoteFields }

(***************************************************************************)
(* The texts embedded in the import script: every string of up to MaxLen   *)
(* characters over a quote, a backslash, a letter and a semicolon, put in  *)
(* one field of an otherwise harmless product.                             *)
(***************************************************************************)
Alphabet == {"'", "\\", "a", ";"}

RECURSIVE Texts(_)
Texts(n) ==
    IF n = 0 THEN {""}
    ELSE Texts(n - 1) \cup {c \o t : c \in Alphabet, t \in Texts(n - 1)}

\* The fields generateProductImportScript interpolates.
EmbeddedFields ==
    {"name", "description", "short_description", "regular_price", "sale_price",
     "sku", "stock_status", "categories", "images"}

PlainProduct ==
    [name |-> "Mug", description |-> "A mug", short_description |-> "mug",
     price |-> "10", regular_price |-> "10", sale_price |-> "9", sku |-> "M1",
     stock_status |-> "instock", categories |-> <<"Mugs">>,
     images |-> <<"m.jpg">>, attributes |-> <<>>, variations |-> <<>>]

\* The product whose field f is the text t (its only category or image, for
\* the two list fields).
ProductWithText(f, t) ==
    WithField(PlainProduct, f, IF f \in {"categories", "images"} THEN <<t>> ELSE t)

(***************************************************************************)
(* The command line (cli/index.ts, and its later rendition part_001).      *)
(* The variable cli says which rendition a behaviour runs.                 *)
(***************************************************************************)
Clis == {"index.ts", "part_001"}

\* arg.startsWith(prefix)
StartsWith(arg, prefix) ==
    Len(arg) >= Len(prefix) /\ SubSeq(arg, 1, Len(prefix)) = prefix

\* arg.split("=")[1]: what stands between the first "=" and the next one;
\* empty set when arg has no "=" (undefined).
SplitEquals(arg) ==
    LET eqs == {i \in 1..Len(arg) : SubSeq(arg, i, i) = "="}
    IN  IF eqs = {} THEN {}
        ELSE LET first == CHOOSE i \in eqs : \A j \in eqs : i <= j
                 later == {i \in eqs : i > first}
                 next == IF later = {} THEN Len(arg) + 1
                         ELSE CHOOSE i \in later : \A j \in later : i <= j
             IN  {SubSeq(arg, first + 1, next - 1)}

\* The loop over args: a variable assigned by every argument with the prefix
\* holds the value of the last one.
LastValue(args, prefix) ==
    LET idx == {i \in 1..Len(args) : StartsWith(args[i], prefix)}
    IN  IF idx = {} THEN {}
        ELSE SplitEquals(args[CHOOSE i \in idx : \A j \in idx : i >= j])

\* The arguments wc-now does not take for itself.
wpNowArgs(args) ==
    SelectSeq(args, LAMBDA a : ~StartsWith(a, "--blueprint=")
                               /\ ~StartsWith(a, "--source-url=")
                               /\ ~StartsWith(a, "--site-name="))

\* extractVersionArg: args.find((a) => a.startsWith(prefix)), then split.
extractVersionArg(args, prefix) ==
    LET idx == {i \in 1..Len(args) : StartsWith(args[i], prefix)}
    IN  IF idx = {} THEN {}
        ELSE SplitEquals(args[CHOOSE i \in idx : \A j \in idx : i <= j])

\* A value that is undefined or the empty string is falsy.
Given(value) == value # {} /\ value # {""}

ValueOf(value) == CHOOSE v \in value : TRUE

siteNameOf(args) ==
    IF LastValue(args, "--site-name=") = {} THEN "My WooCommerce Store"
    ELSE ValueOf(LastValue(args, "--site-name="))

\* phpVersion and wpVersion of part_001: a default, replaced by the argument.
VersionOf(args, prefix, default) ==
    IF LastValue(args, prefix) = {} THEN default ELSE ValueOf(LastValue(args, prefix))

\* An options object: the fields whose value is not undefined.
Defined(fields) == [k \in {x \in DOMAIN fields : fields[x] # {}} |-> ValueOf(fields[k])]

\* The options of the first call of generateWooCommerceBlueprint.
InitialOptions(c, args) ==
    IF c = "index.ts" THEN [siteName |-> siteNameOf(args)]
    ELSE [siteName |-> siteNameOf(args),
          php |-> VersionOf(args, "--php=", "8.0"),
          wp |-> VersionOf(args, "--wp=", "latest")]

\* The options of the call that regenerates the blueprint with products.
RegenerateOptions(c, args, products) ==
    IF c = "index.ts"
    THEN Defined([siteName |-> {siteNameOf(args)}, products |-> {products},
                  php |-> extractVersionArg(wpNowArgs(args), "--php"),
                  wp |-> extractVersionArg(wpNowArgs(args), "--wp")])
    ELSE [siteName |-> siteNameOf(args), products |-> products,
          php |-> VersionOf(args, "--php=", "8.0"),
          wp |-> VersionOf(args, "--wp=", "latest")]

\* response.data && response.data.length > 0
\* Faulty variant: the length of data is not looked at.
HasProducts_AnyData(r) == "data" \in DOMAIN r

HasProducts(r) == "data" \in DOMAIN r /\ Len(r.data) > 0

\* escapePHP(undefined) throws: generateProductImportScript fails on a record
\* without name or description.
RegenerateThrows(products) ==
    \E i \in 1..Len(products) : ~({"name", "description"} \subseteq DOMAIN products[i])

\* The blueprint after the fetch block: regenerated with the products, or
\* left as it is when there is none or the try block threw.
AfterFetch(im, c, args, bp, r) ==
    IF HasProducts(r)
    THEN LET products == transformWooCommerceProducts(r.data)
         IN  IF RegenerateThrows(products) THEN bp
             ELSE generateWooCommerceBlueprint(im, RegenerateOptions(c, args, products))
    ELSE bp

\* What the fetch block writes to the console.
FetchMessages(r) ==
    IF ~HasProducts(r) THEN {"No products found, using default sample data"}
    ELSE IF RegenerateThrows(transformWooCommerceProducts(r.data))
    THEN {"Failed to fetch products:", "Using default sample data instead"}
    ELSE {"Found products to import"}

\* The files the user has: custom.json holds a blueprint.
Files ==
    [x \in {"custom.json"} |->
       [landingPage |-> "/shop/",
        steps |-> <<[step |-> "login", username |-> "admin"]>>]]

\* existsSync(resolvedPath)
\* Faulty variant: the path is not checked.
existsSync_Always(path) == TRUE

existsSync(path) == path \in DOMAIN Files

\* readFileSync throws on a file that is not there.
ReadThrows(path) == path \notin DOMAIN Files

\* blueprint = mergeBlueprints(blueprint, customBlueprint)
MergedWith(bp, customBlueprint) ==
    LET call == mergeBlueprints(Alloc("base", bp) @@ Alloc("custom", customBlueprint),
                                "base", "custom")
    IN  Deref(call.heap, call.result)

\* process.exit(code || 0) of the exit handler; code is a set, empty for null.
RelayedCode(code) == IF code = {} \/ code = {0} THEN 0 ELSE ValueOf(code)

\* The command lines of the model.
Argvs ==
    { <<"start">> \o b \o s \o p \o w :
        b \in {<<>>, <<"--blueprint=non-existent-file.json">>, <<"--blueprint=custom.json">>},
        s \in {<<>>, <<"--source-url=https://example-store.com">>},
        p \in {<<>>, <<"--php=7.4">>},
        w \in {<<>>, <<"--wp=6.3">>} }

\* What getProducts may return: products, no product, a failed fetch
\* (status 500, no data), and a product without description.
Responses ==
    { [status |-> 200, data |-> <<FullRemote>>],
      [status |-> 200, data |-> <<>>],
      [status |-> 500, error |-> "fetch failed"],
      [status |-> 200, data |-> <<WithoutField(FullRemote, "description")>>] }

\* How the runtime may end by itself: with an exit code, or killed.
RuntimeEnds ==
    { [code |-> {0}, signal |-> {}], [code |-> {1}, signal |-> {}],
      [code |-> {}, signal |-> {"SIGKILL"}] }

NoResponse == [status |-> 0]

NoTempFile == [written |-> FALSE, exists |-> FALSE]

NoChild == [state |-> "none", code |-> {}, signal |-> {}, sent |-> {}]

Running == [state |-> "running", code |-> 0, by |-> ""]

Ended(by, code) == [state |-> "ended", code |-> code, by |-> by]

(***************************************************************************)
(* The store client, src/src/wc-public-api/client.ts: getAllProducts       *)
(* walks the pages of the products endpoint.  A response is a record; one  *)
(* without the field data stands for a response whose data is undefined    *)
(* (the fetch failed) or null.                                             *)
(***************************************************************************)
\* A store reports totalPages pages; a steady store reports the same number
\* in every response, an unsteady one (products come and go during the
\* walk) any number up to MaxPages.
NoStore == [steady |-> TRUE, totalPages |-> 0]

Stores == [steady : BOOLEAN, totalPages : 0..MaxPages]

ReportedTotals(s) == IF s.steady THEN {s.totalPages} ELSE 0..MaxPages

\* getProducts: page: (params?.page || 1)
PageParam(page) == IF page = 0 THEN 1 ELSE page

\* The products of page p: one product standing for the page.
PageData(p) == <<[id |-> p]>>

\* What fetch returns for page p of store s: the page, an empty array (a
\* page past the end), a body that is null, or the response built by its
\* catch block when the request or response.json() fails.
PageResponses(s, p) ==
    { [status |-> 200, data |-> PageData(p), pagination |-> [totalPages |-> t]]
        : t \in ReportedTotals(s) }
    \cup { [status |-> 200, data |-> <<>>, pagination |-> [totalPages |-> t]]
              : t \in ReportedTotals(s) }
    \cup { [status |-> 200, pagination |-> [totalPages |-> t]]
              : t \in ReportedTotals(s) }
    \cup { [status |-> 500, error |-> "fetch failed", pagination |-> [totalPages |-> 0]] }

\* if (!response.data): [] is truthy.
HasData(r) == "data" \in DOMAIN r

HasNext_Inclusive(page, totalPages) == page <= totalPages

\* hasNextPage = currentPage < response.pagination.totalPages
HasNext(page, totalPages) == page < totalPages

(***************************************************************************)
(* The state machine: a caller picks a rendition and an option set, and    *)
(* one call of generateWooCommerceBlueprint returns the blueprint.         *)
(***************************************************************************)
NoBlueprint == [steps |-> <<>>]

Init ==
    /\ impl \in Impls
    /\ options \in OptionSets
    /\ blueprint = NoBlueprint
    /\ pc = "call"
    /\ base = EmptyDocument
    /\ custom = EmptyDocument
    /\ heap = <<>>
    /\ merged = ""
    /\ remote = <<>>
    /\ imports = <<>>
    /\ text = ""
    /\ field = ""
    /\ script = ""
    /\ cli = "index.ts"
    /\ argv = <<>>
    /\ response = NoResponse
    /\ tempFile = NoTempFile
    /\ child = NoChild
    /\ proc = Running
    /\ log = {}
    /\ store = NoStore
    /\ currentPage = 1
    /\ hasNextPage = TRUE
    /\ requested = <<>>
    /\ answers = <<>>
    /\ yielded = <<>>

Generate ==
    /\ pc = "call"
    /\ blueprint' = generateWooCommerceBlueprint(impl, options)
    /\ pc' = "done"
    /\ UNCHANGED <<impl, options, base, custom, heap, merged, remote, imports>>
    /\ UNCHANGED <<text, field, script>>
    /\ UNCHANGED <<cli, argv, response, tempFile, child, proc, log>>
    /\ UNCHANGED <<store, currentPage, hasNextPage, requested, answers, yielded>>

Next == Generate

Spec == Init /\ [][Next]_vars

(***************************************************************************)
(* The state machine of the merge: the caller holds a base document and a  *)
(* custom document, and one call of mergeBlueprints returns the address of *)
(* the merged document.                                                    *)
(***************************************************************************)
InitMerge ==
    /\ impl = "generator.ts"
    /\ options = <<>>
    /\ blueprint = NoBlueprint
    /\ pc = "merge"
    /\ base \in Documents("base")
    /\ custom \in Documents("custom")
    /\ heap = Alloc("base", base) @@ Alloc("custom", custom)
    /\ merged = ""
    /\ remote = <<>>
    /\ imports = <<>>
    /\ text = ""
    /\ field = ""
    /\ script = ""
    /\ cli = "index.ts"
    /\ argv = <<>>
    /\ response = NoResponse
    /\ tempFile = NoTempFile
    /\ child = NoChild
    /\ proc = Running
    /\ log = {}
    /\ store = NoStore
    /\ currentPage = 1
    /\ hasNextPage = TRUE
    /\ requested = <<>>
    /\ answers = <<>>
    /\ yielded = <<>>

Merge ==
    /\ pc = "merge"
    /\ LET call == mergeBlueprints(heap, "base", "custom")
       IN  heap' = call.heap /\ merged' = call.result
    /\ pc' = "done"
    /\ UNCHANGED <<impl, options, blueprint, base, custom, remote, imports>>
    /\ UNCHANGED <<text, field, script>>
    /\ UNCHANGED <<cli, argv, response, tempFile, child, proc, log>>
    /\ UNCHANGED <<store, currentPage, hasNextPage, requested, answers, yielded>>

NextMerge == Merge

SpecMerge == InitMerge /\ [][NextMerge]_vars

(***************************************************************************)
(* The state machine of the normalizer: the caller holds the products the  *)
(* store API returned, and one call of transformWooCommerceProducts        *)
(* returns the import records.                                             *)
(***************************************************************************)
InitTransform ==
    /\ impl = "generator.ts"
    /\ options = <<>>
    /\ blueprint = NoBlueprint
    /\ pc = "transform"
    /\ base = EmptyDocument
    /\ custom = EmptyDocument
    /\ heap = <<>>
    /\ merged = ""
    /\ remote \in SeqsUpTo(RemoteProducts, MaxRemote)
    /\ imports = <<>>
    /\ text = ""
    /\ field = ""
    /\ script = ""
    /\ cli = "index.ts"
    /\ argv = <<>>
    /\ response = NoResponse
    /\ tempFile = NoTempFile
    /\ child = NoChild
    /\ proc = Running
    /\ log = {}
    /\ store = NoStore
    /\ currentPage = 1
    /\ hasNextPage = TRUE
    /\ requested = <<>>
    /\ answers = <<>>
    /\ yielded = <<>>

Transform ==
    /\ pc = "transform"
    /\ imports' = transformWooCommerceProducts(remote)
    /\ pc' = "done"
    /\ UNCHANGED <<impl, options, blueprint, base, custom, heap, merged, remote>>
    /\ UNCHANGED <<text, field, script>>
    /\ UNCHANGED <<cli, argv, response, tempFile, child, proc, log>>
    /\ UNCHANGED <<store, currentPage, hasNextPage, requested, answers, yielded>>

NextTransform == Transform

SpecTransform == InitTransform /\ [][NextTransform]_vars

(***************************************************************************)
(* The state machine of the import script: the caller holds a product with *)
(* a text in one field, and one call of generateProductImportScript        *)
(* returns the script.                                                     *)
(***************************************************************************)
InitEscape ==
    /\ impl = "generator.ts"
    /\ options = <<>>
    /\ blueprint = NoBlueprint
    /\ pc = "embed"
    /\ base = EmptyDocument
    /\ custom = EmptyDocument
    /\ heap = <<>>
    /\ merged = ""
    /\ remote = <<>>
    /\ imports = <<>>
    /\ text \in Texts(MaxLen)
    /\ field \in EmbeddedFields
    /\ script = ""
    /\ cli = "index.ts"
    /\ argv = <<>>
    /\ response = NoResponse
    /\ tempFile = NoTempFile
    /\ child = NoChild
    /\ proc = Running
    /\ log = {}
    /\ store = NoStore
    /\ currentPage = 1
    /\ hasNextPage = TRUE
    /\ requested = <<>>
    /\ answers = <<>>
    /\ yielded = <<>>

Embed ==
    /\ pc = "embed"
    /\ script' = generateProductImportScript(<<ProductWithText(field, text)>>)
    /\ pc' = "done"
    /\ UNCHANGED <<impl, options, blueprint, base, custom, heap, merged, remote, imports>>
    /\ UNCHANGED <<text, field>>
    /\ UNCHANGED <<cli, argv, response, tempFile, child, proc, log>>
    /\ UNCHANGED <<store, currentPage, hasNextPage, requested, answers, yielded>>

NextEscape == Embed

SpecEscape == InitEscape /\ [][NextEscape]_vars

(***************************************************************************)
(* The state machine of the command line: main() runs from the parsing of  *)
(* the arguments to the end of the process; the store, the runtime and     *)
(* the signals sent to the process are the environment.                    *)
(***************************************************************************)
InitCli ==
    /\ impl \in Impls
    /\ options = <<>>
    /\ blueprint = NoBlueprint
    /\ pc = "start"
    /\ base = EmptyDocument
    /\ custom = EmptyDocument
    /\ heap = <<>>
    /\ merged = ""
    /\ remote = <<>>
    /\ imports = <<>>
    /\ text = ""
    /\ field = ""
    /\ script = ""
    /\ cli \in Clis
    /\ argv \in Argvs
    /\ response = NoResponse
    /\ tempFile = NoTempFile
    /\ child = NoChild
    /\ proc = Running
    /\ log = {}
    /\ store = NoStore
    /\ currentPage = 1
    /\ hasNextPage = TRUE
    /\ requested = <<>>
    /\ answers = <<>>
    /\ yielded = <<>>

CliFrame ==
    UNCHANGED <<impl, options, base, custom, heap, merged, remote, imports,
                text, field, script, cli, argv,
                store, currentPage, hasNextPage, requested, answers, yielded>>

\* The arguments are parsed and the default blueprint is generated.
GenerateDefault ==
    /\ pc = "start"
    /\ blueprint' = generateWooCommerceBlueprint(impl, InitialOptions(cli, argv))
    /\ pc' = IF Given(LastValue(argv, "--source-url=")) THEN "fetch" ELSE "custom"
    /\ CliFrame
    /\ UNCHANGED <<response, tempFile, child, proc, log>>

\* if (sourceUrl) { try { ... } catch { ... } }
FetchProducts ==
    /\ pc = "fetch"
    /\ \E r \in Responses :
         /\ response' = r
         /\ blueprint' = AfterFetch(impl, cli, argv, blueprint, r)
         /\ log' = log \cup FetchMessages(r)
    /\ pc' = "custom"
    /\ CliFrame
    /\ UNCHANGED <<tempFile, child, proc>>

\* if (customBlueprintPath) { ... }
MergeCustom ==
    /\ pc = "custom"
    /\ LET path == LastValue(argv, "--blueprint=")
       IN  IF ~Given(path)
           THEN /\ pc' = "write"
                /\ UNCHANGED <<blueprint, proc, log>>
           ELSE IF ~existsSync(ValueOf(path))
           THEN /\ log' = log \cup {"Blueprint file not found"}
                /\ proc' = Ended("exit", 1)
                /\ pc' = "end"
                /\ UNCHANGED blueprint
           ELSE IF ReadThrows(ValueOf(path))
           THEN /\ log' = log \cup {"Error:"}
                /\ proc' = Ended("exit", 1)
                /\ pc' = "end"
                /\ UNCHANGED blueprint
           ELSE /\ log' = log \cup {"Merging custom blueprint"}
                /\ blueprint' = MergedWith(blueprint, Files[ValueOf(path)])
                /\ pc' = "write"
                /\ UNCHANGED proc
    /\ CliFrame
    /\ UNCHANGED <<response, tempFile, child>>

\* writeFileSync(tempBlueprintPath, JSON.stringify(blueprint, null, 2))
WriteTempFile ==
    /\ pc = "write"
    /\ tempFile' = [written |-> TRUE, exists |-> TRUE]
    /\ pc' = "spawn"
    /\ CliFrame
    /\ UNCHANGED <<blueprint, response, child, proc, log>>

\* spawn(...) starts the runtime; the exit and signal handlers are installed.
SpawnRuntime ==
    /\ pc = "spawn"
    /\ child' = [child EXCEPT !.state = "running"]
    /\ pc' = "wait"
    /\ CliFrame
    /\ UNCHANGED <<blueprint, response, tempFile, proc, log>>

\* spawn(...) fails: it throws and the catch block of main exits with 1, or
\* the child emits an error event, which nothing listens to.
SpawnFails ==
    /\ pc = "spawn"
    /\ \E how \in {"exit", "uncaught"} :
         /\ proc' = Ended(how, 1)
         /\ log' = log \cup {IF how = "exit" THEN "Error:" ELSE "Uncaught"}
    /\ child' = [child EXCEPT !.state = "failed"]
    /\ pc' = "end"
    /\ CliFrame
    /\ UNCHANGED <<blueprint, response, tempFile>>

\* SIGINT or SIGTERM while the handlers are installed: child.kill(signal).
RelaySignal ==
    /\ pc = "wait"
    /\ \E sig \in {"SIGINT", "SIGTERM"} \ child.sent :
         child' = [child EXCEPT !.sent = @ \cup {sig}]
    /\ CliFrame
    /\ UNCHANGED <<blueprint, pc, response, tempFile, proc, log>>

\* SIGINT or SIGTERM before the handlers are installed ends the process.
Interrupted ==
    /\ pc \in {"start", "fetch", "custom", "write", "spawn"}
    /\ \E sig \in {"SIGINT", "SIGTERM"} :
         proc' = Ended("signal", IF sig = "SIGINT" THEN 130 ELSE 143)
    /\ pc' = "end"
    /\ CliFrame
    /\ UNCHANGED <<blueprint, response, tempFile, child, log>>

\* The runtime ends: by itself, or killed by a signal the command line sent.
RuntimeExits ==
    /\ pc = "wait"
    /\ \E end \in RuntimeEnds \cup {[code |-> {}, signal |-> {sig}] : sig \in child.sent} :
         child' = [child EXCEPT !.state = "exited", !.code = end.code,
                                !.signal = end.signal]
    /\ pc' = "cleanup"
    /\ CliFrame
    /\ UNCHANGED <<blueprint, response, tempFile, proc, log>>

\* child.on("exit", ...): the file is removed and the process exits.
CleanUp ==
    /\ pc = "cleanup"
    /\ tempFile' = [tempFile EXCEPT !.exists = FALSE]
    /\ proc' = Ended("exit", RelayedCode(child.code))
    /\ pc' = "end"
    /\ CliFrame
    /\ UNCHANGED <<blueprint, response, child, log>>

NextCli ==
    \/ GenerateDefault
    \/ FetchProducts
    \/ MergeCustom
    \/ WriteTempFile
    \/ SpawnRuntime
    \/ SpawnFails
    \/ RelaySignal
    \/ Interrupted
    \/ RuntimeExits
    \/ CleanUp

SpecCli == InitCli /\ [][NextCli]_vars

(***************************************************************************)
(* The state machine of getAllProducts: the consumer calls next(), the     *)
(* generator runs to its next await, the store answers, the generator      *)
(* yields the page or returns.                                             *)
(***************************************************************************)
InitPages ==
    /\ impl = "generator.ts"
    /\ options = <<>>
    /\ blueprint = NoBlueprint
    /\ pc = "start"
    /\ base = EmptyDocument
    /\ custom = EmptyDocument
    /\ heap = <<>>
    /\ merged = ""
    /\ remote = <<>>
    /\ imports = <<>>
    /\ text = ""
    /\ field = ""
    /\ script = ""
    /\ cli = "index.ts"
    /\ argv = <<>>
    /\ response = NoResponse
    /\ tempFile = NoTempFile
    /\ child = NoChild
    /\ proc = Running
    /\ log = {}
    /\ store \in Stores
    /\ currentPage = 1
    /\ hasNextPage = TRUE
    /\ requested = <<>>
    /\ answers = <<>>
    /\ yielded = <<>>

PagesFrame ==
    UNCHANGED <<impl, options, blueprint, base, custom, heap, merged, remote, imports,
                text, field, script, cli, argv, response, tempFile, child, proc, log,
                store>>

\* while (hasNextPage) { await this.getProducts({ page: currentPage, ... })
\* with the values page and more of currentPage and hasNextPage.
LoopHead(page, more) ==
    IF more
    THEN /\ requested' = Append(requested, PageParam(page))
         /\ pc' = "await"
    ELSE /\ requested' = requested
         /\ pc' = "done"

\* The first next(): currentPage = 1, hasNextPage = true, the loop is entered.
StartPages ==
    /\ pc = "start"
    /\ currentPage' = 1
    /\ hasNextPage' = TRUE
    /\ LoopHead(1, TRUE)
    /\ UNCHANGED <<answers, yielded>>
    /\ PagesFrame

\* The store answers the request for the page last asked for: without data
\* the loop is left, with data the page is yielded.
Respond ==
    /\ pc = "await"
    /\ \E r \in PageResponses(store, requested[Len(requested)]) :
         /\ answers' = Append(answers, r)
         /\ IF HasData(r)
            THEN /\ yielded' = Append(yielded, r.data)
                 /\ pc' = "yield"
            ELSE /\ yielded' = yielded
                 /\ pc' = "done"
    /\ UNCHANGED <<currentPage, hasNextPage, requested>>
    /\ PagesFrame

\* A later next(): the generator goes on after its yield.
Resume ==
    /\ pc = "yield"
    /\ hasNextPage' = HasNext(currentPage, answers[Len(answers)].pagination.totalPages)
    /\ currentPage' = currentPage + 1
    /\ LoopHead(currentPage', hasNextPage')
    /\ UNCHANGED <<answers, yielded>>
    /\ PagesFrame

NextPages ==
    \/ StartPages
    \/ Respond
    \/ Resume

SpecPages == InitPages /\ [][NextPages]_vars

(***************************************************************************)
(* Vocabulary of the properties.                                           *)
(***************************************************************************)
Done == pc = "done"

Steps == blueprint.steps

GivenProducts == IF "products" \in DOMAIN options THEN options.products ELSE <<>>

GivenPlugins ==
    IF "additionalPlugins" \in DOMAIN options THEN options.additionalPlugins ELSE <<>>

GivenSteps == IF "additionalSteps" \in DOMAIN options THEN options.additionalSteps ELSE <<>>

\* The positions of the steps the generator emits itself: all but the block of
\* caller-supplied steps that sits right before the last step.
GeneratorIdx ==
    {i \in 1..Len(Steps) : i < Len(Steps) - Len(GivenSteps) \/ i = Len(Steps)}

EndsWith(str, suffix) ==
    /\ Len(str) >= Len(suffix)
    /\ SubSeq(str, Len(str) - Len(suffix) + 1, Len(str)) = suffix

Contains(str, sub) ==
    \E i \in 1..(Len(str) - Len(sub) + 1) : SubSeq(str, i, i + Len(sub) - 1) = sub

SlugOf(s) == IF "pluginData" \in DOMAIN s THEN s.pluginData.slug ELSE s.pluginZipFile.slug

IsInstall(s) == s.step = "installPlugin"

IsInstallOf(s, slug) == IsInstall(s) /\ SlugOf(s) = slug

IsActivate(s) == s.step = "activatePlugin"

IsActivateOf(s, slug) == IsActivate(s) /\ s.pluginPath = slug \o "/" \o slug \o ".php"

IsCoreReadiness(s) == s.step = "runPHP" /\ s.code = CoreReadinessCode

IsSetSiteOptions(s) == s.step = "setSiteOptions"

IsImportHelperWrite(s) == s.step = "writeFile" /\ EndsWith(s.path, "import-products.php")

IsImportRun(s) ==
    /\ s.step = "runPHP"
    /\ Contains(s.code, "require_once(")
    /\ Contains(s.code, "import-products.php")

IsImportRemoval(s) ==
    /\ s.step = "runPHP"
    /\ Contains(s.code, "unlink(")
    /\ Contains(s.code, "import-products.php")

\* The default sample-data import, in either of its two forms.
IsSampleData(s) ==
    \/ s.step = "runPHP" /\ s.code = SampleProductsCode
    \/ s.step = "importWxr" /\ s.file.url = SampleProductsUrl

IsProductStage(s) ==
    IsImportHelperWrite(s) \/ IsImportRun(s) \/ IsImportRemoval(s) \/ IsSampleData(s)

IsDevHelper(s) == s.step = "writeFile" /\ EndsWith(s.path, "playground-helpers.php")

\* The positions among idx, ascending, of the steps that satisfy P.
RECURSIVE Ascending(_)
Ascending(idx) ==
    IF idx = {} THEN <<>>
    ELSE LET m == CHOOSE x \in idx : \A y \in idx : x <= y
         IN  <<m>> \o Ascending(idx \ {m})

Range(f) == {f[i] : i \in DOMAIN f}

\* An import block at i: the helper is written, run at i+1, removed at i+2.
ImportBlockAt(i) ==
    /\ i + 2 <= Len(Steps)
    /\ IsImportHelperWrite(Steps[i])
    /\ IsImportRun(Steps[i + 1])
    /\ IsImportRemoval(Steps[i + 2])

(***************************************************************************)
(* C1: stage order.                                                        *)
(***************************************************************************)
\* C1: among the steps the generator emits, a core-readiness step exists and
\* precedes every install step, every install step precedes every activation
\* step, every activation step precedes the setSiteOptions step, which precedes
\* the product-import or sample-data steps, which precede the developer helper.
C1_StageOrder ==
    Done =>
      /\ \E c \in GeneratorIdx :
           /\ IsCoreReadiness(Steps[c])
           /\ \A i \in GeneratorIdx : IsInstall(Steps[i]) => c < i
      /\ \A i, j \in GeneratorIdx :
           /\ IsInstall(Steps[i]) /\ IsActivate(Steps[j]) => i < j
           /\ IsActivate(Steps[i]) /\ IsSetSiteOptions(Steps[j]) => i < j
           /\ IsSetSiteOptions(Steps[i]) /\ IsProductStage(Steps[j]) => i < j
           /\ IsProductStage(Steps[i]) /\ IsDevHelper(Steps[j]) => i < j

(***************************************************************************)
(* C2: product import and sample data exclude each other.                  *)
(***************************************************************************)
HasImportBlock(idx) == \E i \in idx : {i, i + 1, i + 2} \subseteq idx /\ ImportBlockAt(i)

HasSampleData(idx) == \E i \in idx : IsSampleData(Steps[i])

\* C2 as stated: over the whole step sequence, for every option set, exactly
\* one of the import block and the sample-data step is present, and with a
\* non-empty products list no sample-data step is scheduled.
C2_ExclusiveAllSteps ==
    Done =>
      /\ HasImportBlock(1..Len(Steps)) # HasSampleData(1..Len(Steps))
      /\ Len(GivenProducts) > 0 => ~HasSampleData(1..Len(Steps))

\* C2 amended: among the steps the generator emits itself, exactly one of the
\* import block and the sample-data step is present; the import block exactly
\* when products is non-empty.
C2_ExclusiveGenerated ==
    Done =>
      /\ HasImportBlock(GeneratorIdx) # HasSampleData(GeneratorIdx)
      /\ HasImportBlock(GeneratorIdx) <=> Len(GivenProducts) > 0

C2_Witness ==
    /\ Done
    /\ Len(GivenProducts) > 0
    /\ Len(GivenSteps) > 0
    /\ HasImportBlock(GeneratorIdx)
    /\ ~HasSampleData(GeneratorIdx)

(***************************************************************************)
(* C3: a plugin is installed before it is activated.                       *)
(***************************************************************************)
InstallsOf(slug) == Ascending({i \in 1..Len(Steps) : IsInstallOf(Steps[i], slug)})

ActivationsOf(slug) == Ascending({i \in 1..Len(Steps) : IsActivateOf(Steps[i], slug)})

\* C3: for woocommerce and for every slug of additionalPlugins, the plugin has
\* an activation step, and its k-th install step comes before its k-th
\* activation step.
C3_InstallBeforeActivate ==
    Done =>
      \A slug \in {"woocommerce"} \cup Range(GivenPlugins) :
        LET installs == InstallsOf(slug)
            activations == ActivationsOf(slug)
        IN  /\ Len(activations) >= 1
            /\ Len(installs) >= Len(activations)
            /\ \A k \in 1..Len(activations) : installs[k] < activations[k]

C3_Witness ==
    /\ Done
    /\ Len(GivenPlugins) = 2
    /\ GivenPlugins[1] # GivenPlugins[2]
    /\ Len(ActivationsOf("akismet")) = 1
    /\ Len(ActivationsOf("woocommerce")) = 2

(***************************************************************************)
(* C4: the import helper is written, run and removed.                      *)
(***************************************************************************)
ImportHelperWrites(idx) == {i \in idx : IsImportHelperWrite(Steps[i])}

\* C4 as stated: with products non-empty the whole step sequence holds exactly
\* one writeFile step whose path ends in import-products.php, immediately
\* followed by the step that runs the helper and then the step that removes it.
C4_OneHelperAllSteps ==
    Done /\ Len(GivenProducts) > 0 =>
      /\ Cardinality(ImportHelperWrites(1..Len(Steps))) = 1
      /\ \A i \in ImportHelperWrites(1..Len(Steps)) : ImportBlockAt(i)

\* C4 amended: with products non-empty the steps the generator emits itself
\* hold exactly one writeFile step whose path ends in import-products.php,
\* immediately followed by the step that runs the helper and then the step
\* that removes it, both emitted by the generator too.
C4_OneHelperGenerated ==
    Done /\ Len(GivenProducts) > 0 =>
      /\ Cardinality(ImportHelperWrites(GeneratorIdx)) = 1
      /\ \A i \in ImportHelperWrites(GeneratorIdx) :
           ImportBlockAt(i) /\ {i + 1, i + 2} \subseteq GeneratorIdx

C4_Witness ==
    /\ Done
    /\ Len(GivenProducts) > 0
    /\ \E i \in GeneratorIdx : ImportBlockAt(i)

(***************************************************************************)
(* C5: the developer helper is the last step.                              *)
(***************************************************************************)
\* C5: for every option set the last step of the returned blueprint is the
\* writeFile step of playground-helpers.php.
C5_HelperLast == Done => Len(Steps) >= 1 /\ IsDevHelper(Steps[Len(Steps)])

C5_Witness ==
    /\ Done
    /\ Len(GivenSteps) = 2
    /\ IsDevHelper(Steps[Len(Steps)])
    /\ ~IsDevHelper(Steps[Len(Steps) - 1])

(***************************************************************************)
(* C6: the caller's steps are appended verbatim at a fixed point.          *)
(***************************************************************************)
\* C6: the caller's additionalSteps sit, unchanged and in the caller's order,
\* in one block that starts right after the import block or the sample-data
\* step and ends right before the final developer-helper step.
C6_AdditionalVerbatim ==
    Done =>
      LET n == Len(Steps)
          a == Len(GivenSteps)
      IN  /\ n >= a + 2
          /\ SubSeq(Steps, n - a, n - 1) = GivenSteps
          /\ IsDevHelper(Steps[n])
          /\ \/ IsSampleData(Steps[n - a - 1])
             \/ n - a - 3 >= 1 /\ ImportBlockAt(n - a - 3)

C6_Witness ==
    /\ Done
    /\ Len(GivenSteps) = 2
    /\ GivenSteps[1] # GivenSteps[2]
    /\ SubSeq(Steps, Len(Steps) - 2, Len(Steps) - 1) = GivenSteps

(***************************************************************************)
(* C7: the install steps and the activation steps of the generator.        *)
(***************************************************************************)
GeneratedInstallSlugs ==
    LET at == Ascending({i \in GeneratorIdx : IsInstall(Steps[i])})
    IN  [k \in 1..Len(at) |-> SlugOf(Steps[at[k]])]

GeneratedActivationPaths ==
    LET at == Ascending({i \in GeneratorIdx : IsActivate(Steps[i])})
    IN  [k \in 1..Len(at) |-> Steps[at[k]].pluginPath]

PathsOf(slugs) == [k \in 1..Len(slugs) |-> slugs[k] \o "/" \o slugs[k] \o ".php"]

\* C7 as stated: the generator's install steps are woocommerce and then one per
\* additionalPlugins slug in the caller's order, and no others; its activation
\* steps mirror them.
C7_InstallsExact ==
    Done =>
      /\ GeneratedInstallSlugs = <<"woocommerce">> \o GivenPlugins
      /\ GeneratedActivationPaths = PathsOf(<<"woocommerce">> \o GivenPlugins)

\* C7 amended: the generator's install steps are woocommerce, then possibly the
\* bundled query-monitor, then one per additionalPlugins slug in the caller's
\* order, and no others; its activation steps mirror the install steps one for
\* one, in the same order.
C7_InstallsWithBundled ==
    Done =>
      LET slugs == GeneratedInstallSlugs
      IN  /\ \E bundled \in {<<>>, <<"query-monitor">>} :
               slugs = <<"woocommerce">> \o bundled \o GivenPlugins
          /\ GeneratedActivationPaths = PathsOf(slugs)

C7_Witness ==
    /\ Done
    /\ GivenPlugins = <<"akismet", "woocommerce">>
    /\ Len(GivenSteps) > 0
    /\ GeneratedInstallSlugs = <<"woocommerce", "query-monitor", "akismet", "woocommerce">>

(***************************************************************************)
(* C8: the first two steps of the default blueprint.                       *)
(***************************************************************************)
\* C8: with no option supplied the first step is the core-readiness check and
\* the second step installs woocommerce.
C8_SecondStepInstallsWooCommerce ==
    Done /\ DOMAIN options = {} =>
      /\ Len(Steps) >= 2
      /\ IsCoreReadiness(Steps[1])
      /\ IsInstallOf(Steps[2], "woocommerce")

(***************************************************************************)
(* C9: install steps carry pluginData.                                     *)
(***************************************************************************)
\* C9: for woocommerce and for every slug of additionalPlugins the blueprint
\* holds an installPlugin step with a pluginData field of that slug.
C9_InstallCarriesPluginData ==
    Done =>
      \A slug \in {"woocommerce"} \cup Range(GivenPlugins) :
        \E i \in 1..Len(Steps) :
          /\ Steps[i].step = "installPlugin"
          /\ "pluginData" \in DOMAIN Steps[i]
          /\ Steps[i].pluginData.slug = slug

(***************************************************************************)
(* C10: every option is defaulted on its own.                              *)
(***************************************************************************)
GeneratedSetSiteOptions == {i \in GeneratorIdx : IsSetSiteOptions(Steps[i])}

\* C10: whatever subset of the options is supplied, each omitted option takes
\* its default (landingPage "/wp-admin/", php "8.0", wp "latest", siteName
\* "My WooCommerce Store", the three lists empty) and each supplied option is
\* recorded as given: landingPage and the versions in the head of the
\* blueprint, siteName as blogname, products in the import script, the plugin
\* slugs in the install steps and the raw steps before the last step.
C10_IndependentDefaults ==
    Done =>
      /\ blueprint.landingPage =
           (IF "landingPage" \in DOMAIN options THEN options.landingPage ELSE "/wp-admin/")
      /\ blueprint.preferredVersions =
           [php |-> IF "php" \in DOMAIN options THEN options.php ELSE "8.0",
            wp |-> IF "wp" \in DOMAIN options THEN options.wp ELSE "latest"]
      /\ GeneratedSetSiteOptions # {}
      /\ \A i \in GeneratedSetSiteOptions :
           Steps[i].options.blogname =
             (IF "siteName" \in DOMAIN options THEN options.siteName
              ELSE "My WooCommerce Store")
      /\ IF Len(GivenProducts) = 0
         THEN HasSampleData(GeneratorIdx) /\ ImportHelperWrites(GeneratorIdx) = {}
         ELSE \E i \in ImportHelperWrites(GeneratorIdx) :
                Steps[i].data = generateProductImportScript(options.products)
      /\ \E bundled \in {<<>>, <<"query-monitor">>} :
           GeneratedInstallSlugs = <<"woocommerce">> \o bundled \o GivenPlugins
      /\ Len(Steps) >= Len(GivenSteps) + 1
      /\ SubSeq(Steps, Len(Steps) - Len(GivenSteps), Len(Steps) - 1) = GivenSteps
      /\ DOMAIN options = {} =>
           blueprint.preferredVersions = [php |-> "8.0", wp |-> "latest"]

\* Some options supplied, among them an empty landing page, the others omitted.
C10_Witness ==
    /\ Done
    /\ DOMAIN options = {"landingPage", "php", "additionalSteps"}
    /\ options.landingPage = ""
    /\ blueprint.landingPage = ""
    /\ blueprint.preferredVersions = [php |-> "7.4", wp |-> "latest"]
    /\ \E i \in GeneratedSetSiteOptions :
         Steps[i].options.blogname = "My WooCommerce Store"

(***************************************************************************)
(* C11: the generator's own setSiteOptions step.                           *)
(***************************************************************************)
\* The settings bundle of a setSiteOptions step: its options without blogname.
BundleOf(step) == [k \in DOMAIN step.options \ {"blogname"} |-> step.options[k]]

\* The generator's setSiteOptions steps when it is called with no option.
DefaultSetSiteOptions ==
    LET steps == generateWooCommerceBlueprint(impl, <<>>).steps
    IN  {steps[i] : i \in {j \in 1..Len(steps) : IsSetSiteOptions(steps[j])}}

\* C11: the generator emits exactly one setSiteOptions step of its own; its
\* blogname is the caller's siteName, or "My WooCommerce Store" when omitted;
\* the other keys and values are those of the call without options, whatever
\* the options are, and include the store's currency and country.
C11_OneSetSiteOptions ==
    Done =>
      /\ Cardinality(GeneratedSetSiteOptions) = 1
      /\ \A i \in GeneratedSetSiteOptions :
           /\ Steps[i].options.blogname =
                (IF "siteName" \in DOMAIN options THEN options.siteName
                 ELSE "My WooCommerce Store")
           /\ \A d \in DefaultSetSiteOptions : BundleOf(Steps[i]) = BundleOf(d)
           /\ DefaultSetSiteOptions # {}
           /\ Steps[i].options.woocommerce_currency = "USD"
           /\ Steps[i].options.woocommerce_default_country = "US:NY"
           /\ "blogname" \in DOMAIN Steps[i].options
           /\ Cardinality(DOMAIN Steps[i].options) > 1

\* A site name is supplied together with every other option.
C11_Witness ==
    /\ Done
    /\ DOMAIN options = OptionKeys
    /\ options.siteName = "Test Store"
    /\ Len(GivenProducts) > 0
    /\ \E i \in GeneratedSetSiteOptions :
         /\ Steps[i].options.blogname = "Test Store"
         /\ Steps[i].options.woocommerce_currency = "USD"

(***************************************************************************)
(* Vocabulary of the merge properties.                                     *)
(***************************************************************************)
\* The document mergeBlueprints returned.
MergedDocument == Deref(heap, merged)

Has(doc, f) == f \in DOMAIN doc

\* The mapping or list behind field f of a document, empty when the field is absent.
FieldOrEmpty(doc, f) == IF Has(doc, f) THEN doc[f] ELSE <<>>

(***************************************************************************)
(* C13: mapping-valued fields are merged key by key.                       *)
(***************************************************************************)
\* C13: for preferredVersions, features, siteOptions and constants, the merged
\* mapping has exactly the keys of base's and of custom's mapping, with
\* custom's value for every key of custom's mapping and base's value for
\* every other key; the field is present when either document has it.
C13_ShallowMerge ==
    Done =>
      \A f \in MappingFields :
        LET baseMap == FieldOrEmpty(base, f)
            customMap == FieldOrEmpty(custom, f)
            mergedMap == FieldOrEmpty(MergedDocument, f)
        IN  /\ Has(MergedDocument, f) <=> (Has(base, f) \/ Has(custom, f))
            /\ DOMAIN mergedMap = DOMAIN baseMap \cup DOMAIN customMap
            /\ \A k \in DOMAIN customMap : mergedMap[k] = customMap[k]
            /\ \A k \in DOMAIN baseMap \ DOMAIN customMap : mergedMap[k] = baseMap[k]

\* Base maps k1 and k2, custom maps k2 only: k1 keeps base's value, k2 takes custom's.
C13_Witness ==
    /\ Done
    /\ Has(base, "preferredVersions") /\ Has(custom, "preferredVersions")
    /\ DOMAIN base.preferredVersions = {"k1", "k2"}
    /\ DOMAIN custom.preferredVersions = {"k2"}
    /\ MergedDocument.preferredVersions.k1 = base.preferredVersions.k1
    /\ MergedDocument.preferredVersions.k2 = custom.preferredVersions.k2
    /\ base.preferredVersions.k2 # custom.preferredVersions.k2

(***************************************************************************)
(* C14: phpExtensionBundles after the merge.                               *)
(***************************************************************************)
NoDuplicates(s) == \A i, j \in 1..Len(s) : i # j => s[i] # s[j]

\* s with every element removed that occurs earlier in s.
FirstOccurrences(s) ==
    LET kept == Ascending({i \in 1..Len(s) : \A j \in 1..(i - 1) : s[j] # s[i]})
    IN  [n \in 1..Len(kept) |-> s[kept[n]]]

C15_ListsConcatenated ==
    Done =>
      \A f \in ListFields :
        LET baseList == FieldOrEmpty(base, f)
            customList == FieldOrEmpty(custom, f)
            mergedList == FieldOrEmpty(MergedDocument, f)
        IN  /\ Has(MergedDocument, f) <=> (Has(base, f) \/ Has(custom, f))
            /\ Len(mergedList) = Len(baseList) + Len(customList)
            /\ \A i \in 1..Len(baseList) : mergedList[i] = baseList[i]
            /\ \A i \in 1..Len(customList) : mergedList[Len(baseList) + i] = customList[i]

\* Custom brings a step with an unknown tag and a step that base already has.
C15_Witness ==
    /\ Done
    /\ Has(base, "steps") /\ Has(custom, "steps")
    /\ Len(base.steps) = 1 /\ Len(custom.steps) = 2
    /\ custom.steps[1].step = "frobnicate"
    /\ custom.steps[2] = base.steps[1]
    /\ MergedDocument.steps = <<base.steps[1], custom.steps[1], base.steps[1]>>

(***************************************************************************)
(* C16: the scalar fields.                                                 *)
(***************************************************************************)
\* C16: for schema, landingPage and login the merged document has custom's
\* value whenever custom has the field, whatever the value, and base's value
\* (or no field, when base has none) otherwise.
C16_ScalarOverrideWhenPresent ==
    Done =>
      \A f \in TruthyScalarFields \cup {"login"} :
        /\ Has(MergedDocument, f) <=> (Has(base, f) \/ Has(custom, f))
        /\ Has(custom, f) => MergedDocument[f] = custom[f]
        /\ (~Has(custom, f) /\ Has(base, f)) => MergedDocument[f] = base[f]

(***************************************************************************)
(* C17: the merge leaves its arguments alone.                              *)
(***************************************************************************)
\* The objects the caller held before the call.
ArgumentObjects == Alloc("base", base) @@ Alloc("custom", custom)

\* C17: after the call every object of base and of custom, the document
\* objects and their mappings and lists, is what it was before the call, and
\* the returned document is an object that did not exist before.
C17_NonDestructive ==
    Done =>
      /\ \A a \in DOMAIN ArgumentObjects : a \in DOMAIN heap /\ heap[a] = ArgumentObjects[a]
      /\ merged \in DOMAIN heap \ DOMAIN ArgumentObjects
      /\ Deref(heap, "base") = base
      /\ Deref(heap, "custom") = custom

\* Both documents have every field, and the merge built a new steps list.
C17_Witness ==
    /\ Done
    /\ DOMAIN base = MergeFields
    /\ DOMAIN custom = MergeFields
    /\ MergedDocument.steps # base.steps
    /\ MergedDocument.landingPage = custom.landingPage
    /\ heap["base"].steps = "base.steps"
    /\ heap["merged"].steps = "merged.steps"

(***************************************************************************)
(* C18: the normalizer maps product by product.                            *)
(***************************************************************************)
\* C18: the result has as many records as there are products, and its i-th
\* record is the record of the i-th product alone: what the normalizer
\* returns for that product on its own, carrying that product's name.
C18_RecordPerProduct ==
    Done =>
      /\ Len(imports) = Len(remote)
      /\ \A i \in 1..Len(remote) :
           /\ imports[i] = transformWooCommerceProducts(<<remote[i]>>)[1]
           /\ Has(remote[i], "name") =>
                Has(imports[i], "name") /\ imports[i].name = remote[i].name

\* Two different products, the second one without a name.
C18_Witness ==
    /\ Done
    /\ Len(remote) = 2
    /\ remote[1] = FullRemote
    /\ remote[2] = WithoutField(FullRemote, "name")
    /\ Len(imports) = 2
    /\ imports[1].name = "API Product"
    /\ imports[1] # imports[2]

(***************************************************************************)
(* C19: stock_status comes from is_in_stock alone.                         *)
(***************************************************************************)
\* C19: stock_status is "instock" exactly when is_in_stock is true, and
\* "outofstock" otherwise, also when is_in_stock is absent and whatever stock
\* status string the product carries; a product with is_in_stock false and no
\* short_description yields stock_status "outofstock", short_description "".
C19_StockStatus ==
    Done =>
      \A i \in 1..Len(imports) :
        /\ imports[i].stock_status \in {"instock", "outofstock"}
        /\ imports[i].stock_status = "instock" <=>
             (Has(remote[i], "is_in_stock") /\ remote[i].is_in_stock = TRUE)
        /\ (Has(remote[i], "is_in_stock") /\ remote[i].is_in_stock = FALSE
            /\ ~Has(remote[i], "short_description")) =>
             /\ imports[i].stock_status = "outofstock"
             /\ imports[i].short_description = ""

\* One product out of stock without a short description, one with a stock
\* status string of its own and no is_in_stock.
C19_Witness ==
    /\ Done
    /\ Len(remote) = 2
    /\ remote[1] = [is_in_stock |-> FALSE]
    /\ remote[2] = [stock_status |-> "onbackorder"]
    /\ imports[1].stock_status = "outofstock"
    /\ imports[1].short_description = ""
    /\ imports[2].stock_status = "outofstock"

(***************************************************************************)
(* C20: name and description.                                              *)
(***************************************************************************)
StringFields ==
    {"name", "description", "short_description", "price", "regular_price",
     "sale_price", "sku", "stock_status"}

\* C20: every record has all its string fields; name and description are the
\* product's, or the empty string when the product has none.
C20_NameAndDescriptionDefined ==
    Done =>
      \A i \in 1..Len(imports) :
        /\ StringFields \subseteq DOMAIN imports[i]
        /\ \A f \in {"name", "description"} :
             imports[i][f] = (IF Has(remote[i], f) THEN remote[i][f] ELSE "")

(***************************************************************************)
(* C21: the defaults of the normalizer.                                    *)
(***************************************************************************)
\* Field f of record r is there and is not the empty string.
NonEmpty(r, f) == Has(r, f) /\ r[f] # ""

\* C21: price and regular_price are "0" and sale_price is "" when the product
\* has no prices object or the object lacks the field; sku and
\* short_description are "" when missing; categories and images are empty
\* when missing; a field that is present and non-empty is used unchanged,
\* categories as the names of the entries.
C21_Defaults ==
    Done =>
      \A i \in 1..Len(imports) :
        LET p == remote[i]
            r == imports[i]
        IN  /\ \A f \in {"price", "regular_price", "sale_price"} :
                 /\ (~Has(p, "prices") \/ ~Has(p.prices, f)) =>
                      r[f] = (IF f = "sale_price" THEN "" ELSE "0")
                 /\ (Has(p, "prices") /\ NonEmpty(p.prices, f)) => r[f] = p.prices[f]
            /\ \A f \in {"sku", "short_description"} :
                 /\ ~Has(p, f) => r[f] = ""
                 /\ NonEmpty(p, f) => r[f] = p[f]
            /\ ~Has(p, "categories") => r.categories = <<>>
            /\ ~Has(p, "images") => r.images = <<>>
            /\ Has(p, "categories") =>
                 r.categories = [n \in 1..Len(p.categories) |-> p.categories[n].name]

\* One product without a prices object, one whose prices object has a
\* regular price but no sale price.
C21_Witness ==
    /\ Done
    /\ Len(remote) = 2
    /\ remote[1] = WithoutField(FullRemote, "prices")
    /\ Has(remote[2], "prices") /\ DOMAIN remote[2].prices = {"price", "regular_price"}
    /\ imports[1].price = "0" /\ imports[1].regular_price = "0"
    /\ imports[1].sale_price = ""
    /\ imports[2].regular_price = "2500" /\ imports[2].sale_price = ""
    /\ imports[1].sku = "API-001"

(***************************************************************************)
(* C22: the images of a record.                                            *)
(***************************************************************************)
\* The positions of the image objects that carry a non-empty src.
WithSource(imgs) == Ascending({n \in 1..Len(imgs) : NonEmpty(imgs[n], "src")})

\* C22: the images of a record are the src URLs of the product's image
\* objects that have a non-empty src, in the product's order; no entry is
\* the empty string.
C22_ImagesFiltered ==
    Done =>
      \A i \in 1..Len(imports) :
        LET imgs == FieldOrEmpty(remote[i], "images")
            kept == WithSource(imgs)
        IN  /\ imports[i].images = [n \in 1..Len(kept) |-> imgs[kept[n]].src]
            /\ \A n \in 1..Len(imports[i].images) : imports[i].images[n] # ""

\* Four image objects, one with an empty src and one without src: the two
\* URLs that remain keep their order.
C22_Witness ==
    /\ Done
    /\ Len(remote) = 1
    /\ Has(remote[1], "images") /\ Len(remote[1].images) = 4
    /\ remote[1].images[1].src = ""
    /\ ~Has(remote[1].images[3], "src")
    /\ imports[1].images =
         <<"https://example.com/image2.jpg", "https://example.com/image1.jpg">>

(***************************************************************************)
(* Vocabulary of the script properties.                                    *)
(***************************************************************************)
\* The least position at which sub occurs in str.
Find(str, sub) ==
    CHOOSE i \in 1..Len(str) :
      /\ SubSeq(str, i, i + Len(sub) - 1) = sub
      /\ \A j \in 1..(i - 1) : SubSeq(str, j, j + Len(sub) - 1) # sub

\* What the template writes up to and with the quote that opens field f.
Opening(f) ==
    IF f \in {"categories", "images"} THEN "'" \o f \o "' => array('"
    ELSE "'" \o f \o "' => '"

\* The position after the opening quote of the field.
LiteralStart == Find(script, Opening(field)) + Len(Opening(field))

\* The position of the quote the template wrote to close the field: what
\* follows it is as long as in the script of the empty text.
ClosingQuote ==
    Len(script)
    - Len(generateProductImportScript(<<ProductWithText(field, "")>>))
    + LiteralStart

\* The characters the script holds between the two quotes.
EmbeddedText == SubSeq(script, LiteralStart, ClosingQuote - 1)

\* Every \' of s replaced by ', reading from the left.
RECURSIVE UndoQuoteEscaping(_)
UndoQuoteEscaping(s) ==
    IF Len(s) < 2 THEN s
    ELSE IF SubSeq(s, 1, 2) = "\\'" THEN "'" \o UndoQuoteEscaping(SubSeq(s, 3, Len(s)))
    ELSE SubSeq(s, 1, 1) \o UndoQuoteEscaping(SubSeq(s, 2, Len(s)))

\* PHP reading a single-quoted literal of str from position i on: \' denotes
\* a quote, \\ a backslash, any other character itself, and the first
\* unescaped quote ends the literal.  end is the position of that quote, or
\* Len(str) + 1 when there is none.
RECURSIVE ReadSingleQuoted(_, _, _)
ReadSingleQuoted(str, i, value) ==
    IF i > Len(str) THEN [value |-> value, end |-> i]
    ELSE LET c == SubSeq(str, i, i)
             d == IF i < Len(str) THEN SubSeq(str, i + 1, i + 1) ELSE ""
         IN  IF c = "'" THEN [value |-> value, end |-> i]
             ELSE IF c = "\\" /\ d \in {"'", "\\"}
             THEN ReadSingleQuoted(str, i + 2, value \o d)
             ELSE ReadSingleQuoted(str, i + 1, value \o c)

(***************************************************************************)
(* C23: the quote escaping can be undone.                                  *)
(***************************************************************************)
\* C23: for every text over quotes, backslashes and other characters, in the
\* name as in every other embedded field, replacing \' by ' in the characters
\* the script holds between the field's quotes gives back the text.
C23_EscapingRoundTrip ==
    Done => UndoQuoteEscaping(EmbeddedText) = text

\* A name with a backslash and two quotes.
C23_Witness ==
    /\ Done
    /\ field = "name"
    /\ text = "'\\'"
    /\ EmbeddedText = "\\'\\\\'"
    /\ UndoQuoteEscaping(EmbeddedText) = "'\\'"

(***************************************************************************)
(* C24: an embedded text stays inside its literal.                         *)
(***************************************************************************)
\* C24: read by PHP from its opening quote on, the literal of every embedded
\* field ends at the quote the template wrote to close it and denotes the
\* text of the field.
C24_LiteralDenotesText ==
    Done =>
      LET literal == ReadSingleQuoted(script, LiteralStart, "")
      IN  /\ literal.end = ClosingQuote
          /\ literal.value = text

(***************************************************************************)
(* Vocabulary of the command line properties.                              *)
(***************************************************************************)
\* The process is over.
ProcessEnded == pc = "end"

\* The process ended by a process.exit of its own code.
ExitedItself == ProcessEnded /\ proc.by = "exit"

\* The command line names a blueprint file that is not there.
NamesMissingBlueprint ==
    \E i \in 1..Len(argv) : argv[i] = "--blueprint=non-existent-file.json"

NamesSourceUrl == \E i \in 1..Len(argv) : StartsWith(argv[i], "--source-url=")

\* The version the command line gives for php or wp, or the default.
CommandLineVersion(flag, default) ==
    IF \E i \in 1..Len(argv) : argv[i] = flag \o "=7.4" THEN "7.4"
    ELSE IF \E i \in 1..Len(argv) : argv[i] = flag \o "=6.3" THEN "6.3"
    ELSE default

\* The fetch gave at least one product the generator could take.
ProductsFetched ==
    /\ "data" \in DOMAIN response
    /\ Len(response.data) > 0
    /\ \A i \in 1..Len(response.data) : Has(response.data[i], "description")

(***************************************************************************)
(* C25: a blueprint file that does not exist.                              *)
(***************************************************************************)
\* C25: when --blueprint names a file that does not exist, the temporary
\* file is never written and the runtime never spawned, and the process,
\* when it ends by itself, has reported "Blueprint file not found" and exits
\* with code 1.
C25_MissingBlueprint ==
    NamesMissingBlueprint =>
      /\ ~tempFile.written
      /\ child.state = "none"
      /\ ExitedItself => ("Blueprint file not found" \in log /\ proc.code = 1)

\* The file is missing and the products of a store were fetched before.
C25_Witness ==
    /\ NamesMissingBlueprint
    /\ ExitedItself
    /\ NamesSourceUrl /\ ProductsFetched
    /\ proc.code = 1
    /\ "Blueprint file not found" \in log

(***************************************************************************)
(* C26: the temporary file is removed.                                     *)
(***************************************************************************)
\* C26: when the process is over and the temporary blueprint file was
\* written, the file is there no more.
C26_TempFileRemoved ==
    (ProcessEnded /\ tempFile.written) => ~tempFile.exists

(***************************************************************************)
(* C27: the versions of the command line.                                  *)
(***************************************************************************)
\* C27: the document written for the runtime records the php and wp versions
\* of the command line (8.0 and latest when not given), whether or not a
\* source URL was given and whatever the fetch returned.
C27_VersionsRecorded ==
    tempFile.written =>
      blueprint.preferredVersions =
        [php |-> CommandLineVersion("--php", "8.0"),
         wp |-> CommandLineVersion("--wp", "latest")]

(***************************************************************************)
(* C28: a fetch without products.                                          *)
(***************************************************************************)
\* C28: with a source URL, after a fetch that failed, threw or returned no
\* product the process goes on with the document generated without
\* products; it never exits by itself before writing the file unless the
\* blueprint file is missing; and the written document has the import block
\* exactly when products were fetched, the sample data otherwise.
C28_FetchFailureTolerated ==
    /\ (NamesSourceUrl /\ response # NoResponse /\ ~ProductsFetched) =>
         /\ pc = "custom" =>
              /\ proc = Running
              /\ blueprint = generateWooCommerceBlueprint(impl, InitialOptions(cli, argv))
         /\ tempFile.written =>
              /\ ~HasImportBlock(1..Len(Steps))
              /\ HasSampleData(1..Len(Steps))
    /\ tempFile.written => (HasImportBlock(1..Len(Steps)) <=> ProductsFetched)
    /\ (ExitedItself /\ ~tempFile.written) => NamesMissingBlueprint

\* The fetch failed, and the runtime was started with the sample data.
C28_Witness ==
    /\ NamesSourceUrl
    /\ response.status = 500
    /\ tempFile.written
    /\ child.state = "running"
    /\ HasSampleData(1..Len(Steps))
    /\ "No products found, using default sample data" \in log

(***************************************************************************)
(* C29: the exit code of the runtime.                                      *)
(***************************************************************************)
\* C29: when the process has ended after the runtime, its exit code is the
\* runtime's, and it is not 0 when the runtime ended with a code other than
\* 0 or was killed by a signal.
C29_RuntimeOutcomeRelayed ==
    (ExitedItself /\ child.state = "exited") =>
      /\ \A c \in child.code : proc.code = c
      /\ (child.code # {0} \/ child.signal # {}) => proc.code # 0

(***************************************************************************)
(* C30: getAllProducts asks for the pages 1, 2, 3, ... without gap or      *)
(* repeat and yields the data of each page in that order; the first        *)
(* response without data ends the walk and nothing is yielded for it;      *)
(* otherwise a further page is asked for exactly when the page just        *)
(* yielded is below the totalPages its response reported; and of a store   *)
(* that reports the same totalPages in every response at most              *)
(* max(1, totalPages) pages are asked for.                                 *)
(***************************************************************************)
Max(a, b) == IF a >= b THEN a ELSE b

Answered == Len(answers)

C30_PagesInOrder ==
    /\ \A i \in 1..Len(requested) : requested[i] = i
    /\ Answered \in {Len(requested), Len(requested) - 1}
    /\ (pc = "await") <=> (Answered = Len(requested) - 1)
    /\ \A i \in 1..Answered :
         IF HasData(answers[i])
         THEN /\ Len(yielded) >= i
              /\ yielded[i] = answers[i].data
         ELSE /\ i = Answered
              /\ Len(yielded) = i - 1
              /\ Len(requested) = i
              /\ pc = "done"
    /\ Len(yielded) <= Answered
    /\ \A i \in 1..(Len(requested) - 1) :
         /\ HasData(answers[i])
         /\ i < answers[i].pagination.totalPages
    /\ (pc = "done" /\ Answered > 0 /\ HasData(answers[Answered])) =>
         Answered >= answers[Answered].pagination.totalPages
    /\ store.steady => Len(requested) <= Max(1, store.totalPages)

\* Two pages were yielded and the third response had no data.
C30_Witness ==
    /\ pc = "done"
    /\ Len(yielded) = 2
    /\ Answered = 3
    /\ ~HasData(answers[3])

====
